---- MODULE Spec2Model ----
(***************************************************************************)
(* Model of AgentCrew's MCP server editor (MCPsConfigTab in                *)
(* modules/gui/widgets/configs/mcp_config.py): the list of servers, the    *)
(* editor form, the dirty flag and the configuration store.                *)
(*                                                                         *)
(* A text is a sequence of tokens; the token " " is white space and every  *)
(* other token is a run of non-blank characters.  A dict is a sequence of  *)
(* [key, value] entries with pairwise distinct keys, in insertion order.   *)
(***************************************************************************)
EXTENDS Integers, Sequences, FiniteSets, TLC

(***************************************************************************)
(* Bounds of the model.                                                    *)
(***************************************************************************)
MaxItems == 3      \* rows of mcps_list
MaxArgRows == 3    \* rows of arg_inputs the user may add up to
MaxEnvRows == 2    \* rows of env_inputs the user may add up to
MaxSteps == 5      \* user events in one behaviour
MaxTools == 2      \* entries of agent.tool_definitions
MaxText == 4       \* characters of message_input

(***************************************************************************)
(* Text and dict primitives of Python used by the editor.                  *)
(***************************************************************************)
EmptyText == << >>

IsSpace(c) == c = " "

RECURSIVE lstrip(_)
lstrip(t) == IF t # << >> /\ IsSpace(Head(t)) THEN lstrip(Tail(t)) ELSE t

RECURSIVE rstrip(_)
rstrip(t) ==
  IF t # << >> /\ IsSpace(t[Len(t)]) THEN rstrip(SubSeq(t, 1, Len(t) - 1)) ELSE t

\* str.strip()
strip(t) == rstrip(lstrip(t))

\* dict.get(key, default)
Get(d, key, default) == IF key \in DOMAIN d THEN d[key] ELSE default

DictKeys(d) == {d[i].key : i \in 1..Len(d)}

\* d[k] = v on an insertion-ordered dict
DictSet(d, k, v) ==
  IF k \in DictKeys(d)
  THEN [i \in 1..Len(d) |-> IF d[i].key = k THEN [key |-> k, value |-> v] ELSE d[i]]
  ELSE Append(d, [key |-> k, value |-> v])

\* list.remove / takeItem: the sequence without its i-th element
RemoveAt(s, i) == SubSeq(s, 1, i - 1) \o SubSeq(s, i + 1, Len(s))

(***************************************************************************)
(* The environment: the agents known to the AgentManager.                  *)
(***************************************************************************)
available_agents == <<"coder">>

\* new_server in add_new_mcp
new_server ==
  [name |-> <<"New Server">>,
   command |-> <<"docker">>,
   args |-> << <<"run">>, <<"-i">>, <<"--rm">> >>,
   env |-> << >>,
   enabledForAgents |-> << >>,
   streaming_server |-> FALSE,
   url |-> EmptyText]

\* f"new_server_{len(self.mcps_config) + 1}"
new_server_id(config) == <<"new_server_", ToString(Len(config) + 1)>>

(***************************************************************************)
(* State.  store is the content of the configuration store, an ordered     *)
(* dict id -> config.  mcps_list holds the items of the QListWidget, each  *)
(* with its label (text) and its UserRole data (id, config); current_row   *)
(* is the row of currentItem(), 0 for None.  The other variables are the   *)
(* widgets of the editor form and the flags of the tab.                    *)
(***************************************************************************)
VARIABLES
  store,                      \* what read_mcp_config would return
  mcps_config,                \* self.mcps_config
  mcps_list,                  \* items of self.mcps_list
  current_row,                \* self.mcps_list.currentRow() + 1
  is_dirty,                   \* self.is_dirty
  editor_enabled,             \* self.name_input.isEnabled()
  remove_mcp_btn,             \* self.remove_mcp_btn.isEnabled()
  save_btn,                   \* self.save_btn.isEnabled()
  name_input,                 \* text of self.name_input
  streaming_server_checkbox,  \* self.streaming_server_checkbox.isChecked()
  url_input,                  \* text of self.url_input
  command_input,              \* text of self.command_input
  arg_inputs,                 \* texts of the rows of self.arg_inputs
  env_inputs,                 \* key and value texts of the rows of self.env_inputs
  agent_checkboxes,           \* the agents whose checkbox is checked
  url_visible,                \* url_input and url_label shown
  stdio_visible,              \* command, add buttons, args_group and env_group shown
  arg_rows_visible,           \* per argument row: its widgets are not hidden
  env_rows_visible,           \* per env row: its widgets are not hidden
  lastOp,                     \* the handler that ran last and its outcome
  nWriteCalls,                \* calls of write_mcp_config so far
  nWritten,                   \* calls of write_mcp_config that returned
  nEmitted,                   \* config_changed signals emitted
  nSteps,                     \* user events handled so far
  transportRun,               \* transport toggles in a row, just now
  transportBase,              \* the form before the first toggle of that run
  editsDropped,               \* the step was a selection made on a dirty form
  lastSaved,                  \* row and values of the last successful save()
  loaded,                     \* what read_mcp_config returned to __init__
  nReads,                     \* calls of read_mcp_config so far
  local_agent,                \* create_agent_card: its argument agent
  card_pc,                    \* create_agent_card: where the call is
  tool_i,                     \* create_agent_card: the entry the loop is at
  skills,                     \* create_agent_card: the local skills
  card,                       \* create_agent_card: the AgentCard returned
  message_input,              \* characters of chat_window.message_input
  cursor_position,            \* position of its text cursor
  path_prefix,                \* self.path_prefix
  completion_prefix,          \* completionPrefix() of file_completer
  popup_visible,              \* the popup of file_completer is shown
  input_op                    \* the handler of InputComponents that ran last

listVars == <<mcps_list, current_row>>
formVars == <<name_input, streaming_server_checkbox, url_input, command_input,
              arg_inputs, env_inputs, agent_checkboxes>>
widgetVars == <<is_dirty, editor_enabled, remove_mcp_btn, save_btn,
                url_visible, stdio_visible, arg_rows_visible, env_rows_visible>>
storeVars == <<store, mcps_config, nWriteCalls, nWritten, nEmitted>>
histVars == <<transportRun, transportBase, editsDropped, lastSaved, loaded,
              nReads>>
cardVars == <<local_agent, card_pc, tool_i, skills, card>>
inputVars == <<message_input, cursor_position, path_prefix, completion_prefix,
               popup_visible, input_op>>
vars == <<storeVars, listVars, formVars, widgetVars, lastOp, nSteps, histVars,
          cardVars, inputVars>>

\* The widgets of the tab as one value, for the handlers below.
Widgets ==
  [is_dirty |-> is_dirty,
   editor_enabled |-> editor_enabled,
   remove_mcp_btn |-> remove_mcp_btn,
   save_btn |-> save_btn,
   name_input |-> name_input,
   streaming_server_checkbox |-> streaming_server_checkbox,
   url_input |-> url_input,
   command_input |-> command_input,
   arg_inputs |-> arg_inputs,
   env_inputs |-> env_inputs,
   agent_checkboxes |-> agent_checkboxes,
   url_visible |-> url_visible,
   stdio_visible |-> stdio_visible,
   arg_rows_visible |-> arg_rows_visible,
   env_rows_visible |-> env_rows_visible]

SetWidgets(w) ==
  /\ is_dirty' = w.is_dirty
  /\ editor_enabled' = w.editor_enabled
  /\ remove_mcp_btn' = w.remove_mcp_btn
  /\ save_btn' = w.save_btn
  /\ name_input' = w.name_input
  /\ streaming_server_checkbox' = w.streaming_server_checkbox
  /\ url_input' = w.url_input
  /\ command_input' = w.command_input
  /\ arg_inputs' = w.arg_inputs
  /\ env_inputs' = w.env_inputs
  /\ agent_checkboxes' = w.agent_checkboxes
  /\ url_visible' = w.url_visible
  /\ stdio_visible' = w.stdio_visible
  /\ arg_rows_visible' = w.arg_rows_visible
  /\ env_rows_visible' = w.env_rows_visible

(***************************************************************************)
(* Handlers of MCPsConfigTab, as functions of the widgets w.  hasCur tells *)
(* whether mcps_list.currentItem() is an item at the time of the call.     *)
(***************************************************************************)
update_save_button_state(w, hasCur) ==
  [w EXCEPT !.save_btn = hasCur /\ w.is_dirty]

\* mutant: _mark_dirty without its test of the selection and the editor
mark_dirty_unguarded(w, hasCur) ==
  update_save_button_state([w EXCEPT !.is_dirty = TRUE], hasCur)

\* mutant: _mark_dirty that does not test whether the editor is enabled
mark_dirty_ignores_editor(w, hasCur) ==
  IF hasCur
  THEN update_save_button_state([w EXCEPT !.is_dirty = TRUE], hasCur)
  ELSE w

mark_dirty(w, hasCur) ==
  IF hasCur /\ w.editor_enabled
  THEN update_save_button_state([w EXCEPT !.is_dirty = TRUE], hasCur)
  ELSE w

set_sse_fields_visisble(w, visible) == [w EXCEPT !.url_visible = visible]

\* mutant: hiding the stdio group throws its argument rows away
set_stdio_fields_visible_drops_rows(w, visible) ==
  [w EXCEPT !.stdio_visible = visible,
            !.arg_inputs = IF visible THEN @ ELSE << >>,
            !.arg_rows_visible = IF visible THEN [k \in DOMAIN @ |-> visible]
                                 ELSE << >>,
            !.env_rows_visible = [k \in DOMAIN @ |-> visible]]

\* setVisible on the command field, the add buttons, every row and the groups
set_stdio_fields_visible(w, visible) ==
  [w EXCEPT !.stdio_visible = visible,
            !.arg_rows_visible = [k \in DOMAIN @ |-> visible],
            !.env_rows_visible = [k \in DOMAIN @ |-> visible]]

on_streaming_server_changed(w, is_streaming, hasCur) ==
  mark_dirty(set_stdio_fields_visible(set_sse_fields_visisble(w, is_streaming),
                                      ~is_streaming), hasCur)

\* QLineEdit.setText / clear: textChanged is emitted when the text changes,
\* and every line edit of the form is connected to _mark_dirty.
setText(w, field, text, hasCur) ==
  IF w[field] = text THEN w ELSE mark_dirty([w EXCEPT ![field] = text], hasCur)

\* streaming_server_checkbox.setChecked: stateChanged is emitted on a change
streaming_setChecked(w, checked, hasCur) ==
  IF w.streaming_server_checkbox = checked
  THEN w
  ELSE on_streaming_server_changed(
         [w EXCEPT !.streaming_server_checkbox = checked], checked, hasCur)

\* agent_checkboxes[agent].setChecked
agent_setChecked(w, agent, checked, hasCur) ==
  IF (agent \in w.agent_checkboxes) = checked
  THEN w
  ELSE mark_dirty([w EXCEPT !.agent_checkboxes =
                     IF checked THEN @ \cup {agent} ELSE @ \ {agent}], hasCur)

\* mutant: set_editor_enabled that hides nothing when it disables the editor
set_editor_enabled_hides_nothing(w, enabled, hasCur) ==
  LET is_streaming == w.streaming_server_checkbox
      w1 == [w EXCEPT !.editor_enabled = enabled]
      w2 == IF enabled
            THEN set_sse_fields_visisble(
                   set_stdio_fields_visible(w1, ~is_streaming), is_streaming)
            ELSE w1
      w3 == IF ~enabled THEN [w2 EXCEPT !.is_dirty = FALSE] ELSE w2
  IN update_save_button_state(w3, hasCur)

set_editor_enabled(w, enabled, hasCur) ==
  LET is_streaming == w.streaming_server_checkbox
      w1 == [w EXCEPT !.editor_enabled = enabled]
      w2 == IF enabled
            THEN set_sse_fields_visisble(
                   set_stdio_fields_visible(w1, ~is_streaming), is_streaming)
            ELSE [w1 EXCEPT !.url_visible = FALSE, !.stdio_visible = FALSE]
      \* the loops over arg_inputs and env_inputs
      w3 == IF enabled
            THEN [w2 EXCEPT !.arg_rows_visible = [k \in DOMAIN @ |-> ~is_streaming],
                            !.env_rows_visible = [k \in DOMAIN @ |-> ~is_streaming]]
            ELSE w2
      w4 == IF ~enabled THEN [w3 EXCEPT !.is_dirty = FALSE] ELSE w3
  IN update_save_button_state(w4, hasCur)

\* mutant: add_argument_field that never marks the form dirty
add_argument_field_never_dirty(w, value, mark_dirty_on_add, hasCur) ==
  [w EXCEPT !.arg_inputs = Append(@, value),
            !.arg_rows_visible = Append(@, TRUE)]

add_argument_field(w, value, mark_dirty_on_add, hasCur) ==
  LET w1 == [w EXCEPT !.arg_inputs = Append(@, value),
                      !.arg_rows_visible = Append(@, TRUE)]
  IN IF mark_dirty_on_add THEN mark_dirty(w1, hasCur) ELSE w1

remove_argument_field(w, i, hasCur) ==
  mark_dirty([w EXCEPT !.arg_inputs = RemoveAt(@, i),
                       !.arg_rows_visible = RemoveAt(@, i)], hasCur)

\* mutant: clear_argument_fields that leaves the rows in place
clear_argument_fields_keeps_rows(w, hasCur) == w

RECURSIVE clear_argument_fields(_, _)
clear_argument_fields(w, hasCur) ==
  IF w.arg_inputs = << >> THEN w
  ELSE clear_argument_fields(remove_argument_field(w, 1, hasCur), hasCur)

add_env_field(w, key, value, mark_dirty_on_add, hasCur) ==
  LET w1 == [w EXCEPT !.env_inputs =
                Append(@, [key_input |-> key, value_input |-> value]),
                      !.env_rows_visible = Append(@, TRUE)]
  IN IF mark_dirty_on_add THEN mark_dirty(w1, hasCur) ELSE w1

remove_env_field(w, i, hasCur) ==
  mark_dirty([w EXCEPT !.env_inputs = RemoveAt(@, i),
                       !.env_rows_visible = RemoveAt(@, i)], hasCur)

RECURSIVE clear_env_fields(_, _)
clear_env_fields(w, hasCur) ==
  IF w.env_inputs = << >> THEN w
  ELSE clear_env_fields(remove_env_field(w, 1, hasCur), hasCur)

\* the loops of on_mcp_selected that fill the argument and env rows
RECURSIVE add_argument_fields(_, _, _)
add_argument_fields(w, args, hasCur) ==
  IF args = << >> THEN w
  ELSE add_argument_fields(add_argument_field(w, Head(args), FALSE, hasCur),
                           Tail(args), hasCur)

RECURSIVE add_env_fields(_, _, _)
add_env_fields(w, env, hasCur) ==
  IF env = << >> THEN w
  ELSE add_env_fields(
         add_env_field(w, Head(env).key, Head(env).value, FALSE, hasCur),
         Tail(env), hasCur)

RECURSIVE set_agent_checkboxes(_, _, _, _)
set_agent_checkboxes(w, agents, enabled_agents, hasCur) ==
  IF agents = << >> THEN w
  ELSE set_agent_checkboxes(
         agent_setChecked(w, Head(agents),
                          \E k \in 1..Len(enabled_agents) :
                             enabled_agents[k] = Head(agents), hasCur),
         Tail(agents), enabled_agents, hasCur)

\* mutant: on_mcp_selected without the final is_dirty = False
on_mcp_selected_keeps_dirty(w, current) ==
  IF current = [none |-> TRUE]
  THEN [set_editor_enabled(w, FALSE, FALSE) EXCEPT !.remove_mcp_btn = FALSE]
  ELSE
    LET server_config == current.config
        w1 == [set_editor_enabled(w, TRUE, TRUE) EXCEPT !.remove_mcp_btn = TRUE]
        w2 == setText(w1, "name_input", Get(server_config, "name", EmptyText), TRUE)
        w3 == streaming_setChecked(w2, Get(server_config, "streaming_server", FALSE), TRUE)
        w4 == setText(w3, "url_input", Get(server_config, "url", EmptyText), TRUE)
        w5 == setText(w4, "command_input", Get(server_config, "command", EmptyText), TRUE)
        w6 == clear_argument_fields(w5, TRUE)
        w7 == add_argument_fields(w6, Get(server_config, "args", << >>), TRUE)
        w8 == clear_env_fields(w7, TRUE)
        w9 == add_env_fields(w8, Get(server_config, "env", << >>), TRUE)
        w10 == set_agent_checkboxes(w9, available_agents,
                                    Get(server_config, "enabledForAgents", << >>), TRUE)
    IN on_streaming_server_changed(
         w10, Get(server_config, "streaming_server", FALSE), TRUE)

NoItem == [none |-> TRUE]

\* on_mcp_selected(current, previous); current is an item or NoItem
on_mcp_selected(w, current) ==
  IF current = NoItem
  THEN [set_editor_enabled(w, FALSE, FALSE) EXCEPT !.remove_mcp_btn = FALSE]
  ELSE
    LET server_config == current.config
        w1 == [set_editor_enabled(w, TRUE, TRUE) EXCEPT !.remove_mcp_btn = TRUE]
        w2 == setText(w1, "name_input", Get(server_config, "name", EmptyText), TRUE)
        w3 == streaming_setChecked(w2, Get(server_config, "streaming_server", FALSE), TRUE)
        w4 == setText(w3, "url_input", Get(server_config, "url", EmptyText), TRUE)
        w5 == setText(w4, "command_input", Get(server_config, "command", EmptyText), TRUE)
        w6 == clear_argument_fields(w5, TRUE)
        w7 == add_argument_fields(w6, Get(server_config, "args", << >>), TRUE)
        w8 == clear_env_fields(w7, TRUE)
        w9 == add_env_fields(w8, Get(server_config, "env", << >>), TRUE)
        w10 == set_agent_checkboxes(w9, available_agents,
                                    Get(server_config, "enabledForAgents", << >>), TRUE)
        w11 == on_streaming_server_changed(
                 w10, Get(server_config, "streaming_server", FALSE), TRUE)
    IN update_save_button_state([w11 EXCEPT !.is_dirty = FALSE], TRUE)

(***************************************************************************)
(* save_all_mcps and the parts of save_mcp that read the form.             *)
(***************************************************************************)
\* the dict save_all_mcps builds from the items of the list
RECURSIVE collect_mcps(_, _)
collect_mcps(items, config) ==
  IF items = << >> THEN config
  ELSE collect_mcps(Tail(items), DictSet(config, Head(items).id, Head(items).config))

\* "Get arguments" of save_mcp
RECURSIVE form_args(_)
form_args(rows) ==
  IF rows = << >> THEN << >>
  ELSE LET arg_value == strip(Head(rows))
       IN IF arg_value # EmptyText
          THEN <<arg_value>> \o form_args(Tail(rows))
          ELSE form_args(Tail(rows))

\* mutant: "Get environment variables" keeping the first value of a key
RECURSIVE form_env_keeps_first(_, _)
form_env_keeps_first(rows, env) ==
  IF rows = << >> THEN env
  ELSE LET key == strip(Head(rows).key_input)
           value == strip(Head(rows).value_input)
       IN form_env_keeps_first(Tail(rows),
                               IF key # EmptyText /\ key \notin DictKeys(env)
                               THEN DictSet(env, key, value) ELSE env)

\* "Get environment variables" of save_mcp
RECURSIVE form_env(_, _)
form_env(rows, env) ==
  IF rows = << >> THEN env
  ELSE LET key == strip(Head(rows).key_input)
           value == strip(Head(rows).value_input)
       IN form_env(Tail(rows), IF key # EmptyText THEN DictSet(env, key, value) ELSE env)

\* "Get enabled agents" of save_mcp
form_agents(checked) == SelectSeq(available_agents, LAMBDA a : a \in checked)

\* mutant: the validation of save_mcp on the untrimmed texts
form_valid_untrimmed(w) ==
  /\ w.name_input # EmptyText
  /\ IF w.streaming_server_checkbox
     THEN w.url_input # EmptyText
     ELSE w.command_input # EmptyText

\* mutant: the validation of save_mcp with the name test only
form_valid_name_only(w) == strip(w.name_input) # EmptyText

\* the validation of save_mcp
form_valid(w) ==
  /\ strip(w.name_input) # EmptyText
  /\ IF w.streaming_server_checkbox
     THEN strip(w.url_input) # EmptyText
     ELSE strip(w.command_input) # EmptyText

\* mutant: server_config without the values of the hidden transport group
form_config_drops_hidden(w) ==
  [name |-> strip(w.name_input),
   command |-> IF w.streaming_server_checkbox THEN EmptyText
               ELSE strip(w.command_input),
   args |-> IF w.streaming_server_checkbox THEN << >>
            ELSE form_args(w.arg_inputs),
   env |-> IF w.streaming_server_checkbox THEN << >>
           ELSE form_env(w.env_inputs, << >>),
   enabledForAgents |-> form_agents(w.agent_checkboxes),
   streaming_server |-> w.streaming_server_checkbox,
   url |-> IF w.streaming_server_checkbox THEN strip(w.url_input)
           ELSE EmptyText]

\* server_config of save_mcp
form_config(w) ==
  [name |-> strip(w.name_input),
   command |-> strip(w.command_input),
   args |-> form_args(w.arg_inputs),
   env |-> form_env(w.env_inputs, << >>),
   enabledForAgents |-> form_agents(w.agent_checkboxes),
   streaming_server |-> w.streaming_server_checkbox,
   url |-> strip(w.url_input)]

(***************************************************************************)
(* The stores the editor may be started on.                                *)
(***************************************************************************)
StdioServer ==
  [name |-> <<"files">>,
   command |-> <<"npx">>,
   args |-> << <<"-y">> >>,
   env |-> << [key |-> <<"x">>, value |-> <<"1">>] >>,
   enabledForAgents |-> <<"coder">>,
   streaming_server |-> FALSE,
   url |-> <<"http">>]

StreamingServer ==
  [name |-> <<"web">>,
   command |-> EmptyText,
   args |-> << >>,
   env |-> << >>,
   enabledForAgents |-> << >>,
   streaming_server |-> TRUE,
   url |-> <<"http">>]

\* an entry written by hand, with the command only
BareServer == [command |-> <<"uvx">>]

InitStores ==
  { << >>,
    << [key |-> <<"new_server_", "1">>, value |-> StdioServer],
       [key |-> <<"new_server_", "2">>, value |-> StreamingServer] >>,
    << [key |-> <<"tools">>, value |-> BareServer] >> }

\* what the user may type into a line edit: blanks only, or a padded word
TypedTexts == {<<" ">>, <<" ", "x">>}

\* mutant: load_mcps that lists the entries with a name only
RECURSIVE load_mcps_named_only(_)
load_mcps_named_only(config) ==
  IF config = << >> THEN << >>
  ELSE (IF "name" \in DOMAIN Head(config).value
        THEN << [text |-> Head(config).value.name,
                 id |-> Head(config).key,
                 config |-> Head(config).value] >>
        ELSE << >>) \o load_mcps_named_only(Tail(config))

\* load_mcps
RECURSIVE load_mcps(_)
load_mcps(config) ==
  IF config = << >> THEN << >>
  ELSE << [text |-> Get(Head(config).value, "name", Head(config).key),
           id |-> Head(config).key,
           config |-> Head(config).value] >> \o load_mcps(Tail(config))

\* no call of create_agent_card is under way
CardIdle ==
  /\ local_agent = << >>
  /\ card_pc = "idle"
  /\ tool_i = 0
  /\ skills = << >>
  /\ card = << >>

\* InputComponents.__init__: an empty input, no popup
InputStart ==
  /\ message_input = << >>
  /\ cursor_position = 0
  /\ path_prefix = << >>
  /\ completion_prefix = << >>
  /\ popup_visible = FALSE
  /\ input_op = "init"

\* __init__: read_mcp_config, init_ui, load_mcps
EditorStart ==
  /\ store \in InitStores
  /\ mcps_config = store
  /\ mcps_list = load_mcps(mcps_config)
  /\ current_row = 0
  /\ is_dirty = FALSE
  /\ editor_enabled = FALSE
  /\ remove_mcp_btn = FALSE
  /\ save_btn = FALSE
  /\ name_input = EmptyText
  /\ streaming_server_checkbox = FALSE
  /\ url_input = EmptyText
  /\ command_input = EmptyText
  /\ arg_inputs = << >>
  /\ env_inputs = << >>
  /\ agent_checkboxes = {}
  /\ url_visible = FALSE
  /\ stdio_visible = FALSE
  /\ arg_rows_visible = << >>
  /\ env_rows_visible = << >>
  /\ lastOp = "load"
  /\ nWriteCalls = 0
  /\ nWritten = 0
  /\ nEmitted = 0
  /\ nSteps = 0
  /\ transportRun = 0
  /\ transportBase = << >>
  /\ editsDropped = FALSE
  /\ lastSaved = NoItem
  /\ loaded = store
  /\ nReads = 1

\* the configuration tab right after its construction
Init == EditorStart /\ CardIdle /\ InputStart

hasCurrent == current_row # 0

(***************************************************************************)
(* The user's events.                                                      *)
(***************************************************************************)
\* one more user event is handled; no handler reads the store
Step ==
  /\ nSteps < MaxSteps
  /\ nSteps' = nSteps + 1
  /\ UNCHANGED <<loaded, nReads, cardVars, inputVars>>

\* no transport toggle is under way after this step
NoTransportRun ==
  /\ transportRun' = 0
  /\ transportBase' = << >>

\* the user makes row i of the list current: currentItemChanged
Select(i) ==
  /\ i \in 1..Len(mcps_list)
  /\ i # current_row
  /\ current_row' = i
  /\ SetWidgets(on_mcp_selected(Widgets, mcps_list[i]))
  /\ lastOp' = "select"
  /\ NoTransportRun
  /\ editsDropped' = is_dirty
  /\ UNCHANGED lastSaved
  /\ Step
  /\ UNCHANGED <<storeVars, mcps_list>>

\* a user edit op of the form, which leaves the widgets as w
UserEdit(op, w) ==
  /\ Step
  /\ SetWidgets(w)
  /\ lastOp' = op
  /\ NoTransportRun
  /\ editsDropped' = FALSE
  /\ UNCHANGED lastSaved
  /\ UNCHANGED <<storeVars, listVars>>

CanEdit == editor_enabled

\* the user types into name_input, url_input or command_input
EditName(text) ==
  /\ CanEdit /\ text # name_input
  /\ UserEdit("editField", setText(Widgets, "name_input", text, hasCurrent))

EditUrl(text) ==
  /\ CanEdit /\ url_visible /\ text # url_input
  /\ UserEdit("editField", setText(Widgets, "url_input", text, hasCurrent))

EditCommand(text) ==
  /\ CanEdit /\ stdio_visible /\ text # command_input
  /\ UserEdit("editField", setText(Widgets, "command_input", text, hasCurrent))

\* the user toggles streaming_server_checkbox
SetTransport ==
  /\ CanEdit
  /\ Step
  /\ SetWidgets(streaming_setChecked(Widgets, ~streaming_server_checkbox, hasCurrent))
  /\ lastOp' = "setTransport"
  /\ editsDropped' = FALSE
  /\ UNCHANGED lastSaved
  /\ transportRun' = transportRun + 1
  /\ transportBase' = IF transportRun = 0
                       THEN <<streaming_server_checkbox, url_input,
                              command_input, arg_inputs, env_inputs>>
                       ELSE transportBase
  /\ UNCHANGED <<storeVars, listVars>>

\* add_arg_btn clicked: add_argument_field("")
AddArgument ==
  /\ CanEdit /\ stdio_visible /\ Len(arg_inputs) < MaxArgRows
  /\ UserEdit("addArgument", add_argument_field(Widgets, EmptyText, TRUE, hasCurrent))

\* remove button of argument row i clicked
RemoveArgument(i) ==
  /\ CanEdit /\ stdio_visible /\ i \in 1..Len(arg_inputs)
  /\ UserEdit("removeArgument", remove_argument_field(Widgets, i, hasCurrent))

\* the user types into argument row i: textChanged -> _mark_dirty
EditArgument(i, text) ==
  /\ CanEdit /\ stdio_visible /\ i \in 1..Len(arg_inputs)
  /\ text # arg_inputs[i]
  /\ UserEdit("editField", mark_dirty([Widgets EXCEPT !.arg_inputs[i] = text], hasCurrent))

\* add_env_btn clicked: add_env_field("", "")
AddEnvVar ==
  /\ CanEdit /\ stdio_visible /\ Len(env_inputs) < MaxEnvRows
  /\ UserEdit("addEnvVar", add_env_field(Widgets, EmptyText, EmptyText, TRUE, hasCurrent))

\* remove button of env row i clicked
RemoveEnvVar(i) ==
  /\ CanEdit /\ stdio_visible /\ i \in 1..Len(env_inputs)
  /\ UserEdit("removeEnvVar", remove_env_field(Widgets, i, hasCurrent))

\* the user types into the key or the value of env row i
EditEnvKey(i, text) ==
  /\ CanEdit /\ stdio_visible /\ i \in 1..Len(env_inputs)
  /\ text # env_inputs[i].key_input
  /\ UserEdit("editField", mark_dirty([Widgets EXCEPT !.env_inputs[i].key_input = text], hasCurrent))

EditEnvValue(i, text) ==
  /\ CanEdit /\ stdio_visible /\ i \in 1..Len(env_inputs)
  /\ text # env_inputs[i].value_input
  /\ UserEdit("editField", mark_dirty([Widgets EXCEPT !.env_inputs[i].value_input = text], hasCurrent))

\* the user toggles the checkbox of an agent: stateChanged -> _mark_dirty
ToggleAgent(agent) ==
  /\ CanEdit
  /\ UserEdit("toggleAgent", agent_setChecked(Widgets, agent, agent \notin agent_checkboxes, hasCurrent))

\* mutant: add_new_mcp that leaves the new record clean
add_new_mcp_clean ==
  /\ Len(mcps_list) < MaxItems
  /\ LET server_id == new_server_id(mcps_config)
         item == [text |-> new_server.name, id |-> server_id, config |-> new_server]
         w1 == on_mcp_selected(Widgets, item)
     IN /\ mcps_list' = Append(mcps_list, item)
        /\ current_row' = Len(mcps_list) + 1
        /\ SetWidgets(w1)
  /\ lastOp' = "create"
  /\ NoTransportRun
  /\ editsDropped' = FALSE
  /\ UNCHANGED lastSaved
  /\ Step
  /\ UNCHANGED storeVars

\* mutant: add_new_mcp that writes the list to the store at once
add_new_mcp_writes ==
  /\ Len(mcps_list) < MaxItems
  /\ LET server_id == new_server_id(mcps_config)
         item == [text |-> new_server.name, id |-> server_id, config |-> new_server]
         w1 == on_mcp_selected(Widgets, item)
     IN /\ mcps_list' = Append(mcps_list, item)
        /\ current_row' = Len(mcps_list) + 1
        /\ SetWidgets(update_save_button_state([w1 EXCEPT !.is_dirty = TRUE], TRUE))
        /\ store' = DictSet(store, server_id, new_server)
        /\ mcps_config' = DictSet(mcps_config, server_id, new_server)
  /\ lastOp' = "create"
  /\ NoTransportRun
  /\ editsDropped' = FALSE
  /\ UNCHANGED lastSaved
  /\ Step
  /\ UNCHANGED <<nWriteCalls, nWritten, nEmitted>>

\* add_mcp_btn clicked
add_new_mcp ==
  /\ Len(mcps_list) < MaxItems
  /\ LET server_id == new_server_id(mcps_config)
         item == [text |-> new_server.name, id |-> server_id, config |-> new_server]
         w1 == on_mcp_selected(Widgets, item)
     IN /\ mcps_list' = Append(mcps_list, item)
        /\ current_row' = Len(mcps_list) + 1
        /\ SetWidgets(update_save_button_state([w1 EXCEPT !.is_dirty = TRUE], TRUE))
  /\ lastOp' = "create"
  /\ NoTransportRun
  /\ editsDropped' = FALSE
  /\ UNCHANGED lastSaved
  /\ Step
  /\ UNCHANGED storeVars

\* mutant: save_all_mcps that emits config_changed before it writes
save_all_mcps_emits_first(items, ok) ==
  /\ nWriteCalls' = nWriteCalls + 1
  /\ nEmitted' = nEmitted + 1
  /\ IF ok
     THEN /\ store' = collect_mcps(items, << >>)
          /\ mcps_config' = collect_mcps(items, << >>)
          /\ nWritten' = nWritten + 1
     ELSE UNCHANGED <<store, mcps_config, nWritten>>

\* save_all_mcps on the items of the list; ok tells whether write_mcp_config
\* returns or raises
save_all_mcps(items, ok) ==
  /\ nWriteCalls' = nWriteCalls + 1
  /\ IF ok
     THEN /\ store' = collect_mcps(items, << >>)
          /\ mcps_config' = collect_mcps(items, << >>)
          /\ nWritten' = nWritten + 1
          /\ nEmitted' = nEmitted + 1
     ELSE UNCHANGED <<store, mcps_config, nWritten, nEmitted>>

\* mutant: save_mcp that clears is_dirty only after the write succeeded
save_mcp_clean_after_write ==
  /\ save_btn
  /\ current_row # 0
  /\ IF ~form_valid(Widgets)
     THEN /\ lastOp' = "save_invalid"
          /\ UNCHANGED <<storeVars, listVars, formVars, widgetVars>>
     ELSE /\ LET server_id == mcps_list[current_row].id
                 server_config == form_config(Widgets)
                 items == [mcps_list EXCEPT ![current_row] =
                             [text |-> server_config.name,
                              id |-> server_id,
                              config |-> server_config]]
             IN /\ mcps_list' = items
                /\ \E ok \in BOOLEAN :
                     /\ save_all_mcps(items, ok)
                     /\ SetWidgets(IF ok
                                   THEN update_save_button_state(
                                          [Widgets EXCEPT !.is_dirty = FALSE], TRUE)
                                   ELSE Widgets)
                     /\ lastOp' = IF ok THEN "save" ELSE "save_failed"
          /\ UNCHANGED current_row
  /\ NoTransportRun
  /\ editsDropped' = FALSE
  /\ lastSaved' = CASE lastOp' = "save" ->
                        [row |-> current_row,
                         config |-> mcps_list'[current_row].config]
                     [] lastOp' = "save_failed" -> NoItem
                     [] OTHER -> lastSaved
  /\ Step

\* mutant: save_mcp that leaves the text of the list item as it is
save_mcp_keeps_label ==
  /\ save_btn
  /\ current_row # 0
  /\ IF ~form_valid(Widgets)
     THEN /\ lastOp' = "save_invalid"
          /\ UNCHANGED <<storeVars, listVars, formVars, widgetVars>>
     ELSE /\ LET server_id == mcps_list[current_row].id
                 server_config == form_config(Widgets)
                 items == [mcps_list EXCEPT ![current_row] =
                             [text |-> mcps_list[current_row].text,
                              id |-> server_id,
                              config |-> server_config]]
             IN /\ mcps_list' = items
                /\ SetWidgets(update_save_button_state(
                                [Widgets EXCEPT !.is_dirty = FALSE], TRUE))
                /\ \E ok \in BOOLEAN :
                     /\ save_all_mcps(items, ok)
                     /\ lastOp' = IF ok THEN "save" ELSE "save_failed"
          /\ UNCHANGED current_row
  /\ NoTransportRun
  /\ editsDropped' = FALSE
  /\ lastSaved' = CASE lastOp' = "save" ->
                        [row |-> current_row,
                         config |-> mcps_list'[current_row].config]
                     [] lastOp' = "save_failed" -> NoItem
                     [] OTHER -> lastSaved
  /\ Step

\* save_btn clicked
save_mcp ==
  /\ save_btn
  /\ current_row # 0
  /\ IF ~form_valid(Widgets)
     THEN /\ lastOp' = "save_invalid"
          /\ UNCHANGED <<storeVars, listVars, formVars, widgetVars>>
     ELSE /\ LET server_id == mcps_list[current_row].id
                 server_config == form_config(Widgets)
                 items == [mcps_list EXCEPT ![current_row] =
                             [text |-> server_config.name,
                              id |-> server_id,
                              config |-> server_config]]
             IN /\ mcps_list' = items
                /\ SetWidgets(update_save_button_state(
                                [Widgets EXCEPT !.is_dirty = FALSE], TRUE))
                /\ \E ok \in BOOLEAN :
                     /\ save_all_mcps(items, ok)
                     /\ lastOp' = IF ok THEN "save" ELSE "save_failed"
          /\ UNCHANGED current_row
  /\ NoTransportRun
  /\ editsDropped' = FALSE
  /\ lastSaved' = CASE lastOp' = "save" ->
                        [row |-> current_row,
                         config |-> mcps_list'[current_row].config]
                     [] lastOp' = "save_failed" -> NoItem
                     [] OTHER -> lastSaved
  /\ Step

\* the rows QListWidget may make current when row is taken out of a list
\* of n items: a neighbour of the row, or none when the list becomes empty
\* (rows are numbered as after the removal)
RowsAfterTake(row, n) ==
  IF n = 1 THEN {0}
  ELSE {r \in {row - 1, row} : r \in 1..(n - 1)}

\* remove_mcp_btn clicked
remove_mcp ==
  /\ remove_mcp_btn
  /\ current_row # 0
  /\ \E reply \in {"Yes", "No"} :
       IF reply = "No"
       THEN /\ lastOp' = "remove_declined"
            /\ UNCHANGED <<storeVars, listVars, formVars, widgetVars>>
       ELSE \E row \in RowsAfterTake(current_row, Len(mcps_list)) :
              LET items == RemoveAt(mcps_list, current_row)
                  cur == row # 0
                  \* takeItem: currentItemChanged -> on_mcp_selected
                  w1 == on_mcp_selected(Widgets, IF cur THEN items[row] ELSE NoItem)
                  w2 == set_editor_enabled(w1, FALSE, cur)
                  w3 == setText(w2, "name_input", EmptyText, cur)
                  w4 == setText(w3, "command_input", EmptyText, cur)
                  w5 == clear_argument_fields(w4, cur)
                  w6 == clear_env_fields(w5, cur)
                  w7 == set_agent_checkboxes(w6, available_agents, << >>, cur)
              IN /\ mcps_list' = items
                 /\ current_row' = row
                 /\ SetWidgets(w7)
                 /\ \E ok \in BOOLEAN :
                      /\ save_all_mcps(items, ok)
                      /\ lastOp' = IF ok THEN "remove" ELSE "remove_failed"
  /\ NoTransportRun
  /\ editsDropped' = FALSE
  /\ lastSaved' = IF lastOp' = "remove_declined" THEN lastSaved ELSE NoItem
  /\ Step

Next ==
  \/ \E i \in 1..MaxItems : Select(i)
  \/ \E text \in TypedTexts : EditName(text)
  \/ \E text \in TypedTexts : EditUrl(text)
  \/ \E text \in TypedTexts : EditCommand(text)
  \/ SetTransport
  \/ AddArgument
  \/ \E i \in 1..MaxArgRows : RemoveArgument(i)
  \/ \E i \in 1..MaxArgRows, text \in TypedTexts : EditArgument(i, text)
  \/ AddEnvVar
  \/ \E i \in 1..MaxEnvRows : RemoveEnvVar(i)
  \/ \E i \in 1..MaxEnvRows, text \in TypedTexts : EditEnvKey(i, text)
  \/ \E i \in 1..MaxEnvRows, text \in TypedTexts : EditEnvValue(i, text)
  \/ \E agent \in {available_agents[k] : k \in 1..Len(available_agents)} :
       ToggleAgent(agent)
  \/ add_new_mcp
  \/ save_mcp
  \/ remove_mcp

Spec == Init /\ [][Next]_vars

(***************************************************************************)
(* agent_cards.py.  A Python value is a record with its type; a call       *)
(* either returns a value or raises.                                       *)
(***************************************************************************)
PyNone == [type |-> "NoneType"]
PyStr(text) == [type |-> "str", text |-> text]
PyDict(items) == [type |-> "dict", items |-> items]
\* a function that returns result when called without arguments
PyFunction(result) == [type |-> "function", returns |-> result]
\* a function that raises when called without arguments
PyRaisingFunction == [type |-> "function"]

Returned(value) == [raised |-> FALSE, value |-> value]
Raised == [raised |-> TRUE]

\* callable(tool_def)
callable(value) == value.type = "function"

\* the truth value of "if definition:"
truthy(value) ==
  CASE value.type = "NoneType" -> FALSE
    [] value.type = "str" -> value.text # ""
    [] value.type = "dict" -> DOMAIN value.items # {}
    [] OTHER -> TRUE

\* str.title() of one word of a tool name
Capitalized(word) ==
  CASE word = "read" -> "Read"
    [] word = "file" -> "File"
    [] word = "search" -> "Search"
    [] word = "run" -> "Run"
    [] word = "code" -> "Code"
    [] word = "ask" -> "Ask"
    [] OTHER -> word

\* tool_name.replace("_", " ").title(); a tool name is the sequence of the
\* words its underscores separate, the title the sequence of the words its
\* blanks separate
title(tool_name) == [k \in 1..Len(tool_name) |-> Capitalized(tool_name[k])]

\* map_tool_to_skill; "description" in tool_def["function"] raises TypeError
\* when that value is no container
map_tool_to_skill(tool_name, tool_def) ==
  LET skill(description) ==
        [id |-> tool_name,
         name |-> title(tool_name),
         description |-> description,
         examples |-> PyNone,
         inputModes |-> <<"text/plain">>,
         outputModes |-> <<"text/plain">>,
         tags |-> <<tool_name, <<"tool">> >>]
  IN IF tool_def.type = "dict"
     THEN IF "description" \in DOMAIN tool_def.items
          THEN Returned(skill(tool_def.items.description))
          ELSE IF "function" \in DOMAIN tool_def.items
               THEN LET function == tool_def.items.function
                    IN CASE function.type = "dict" ->
                              IF "description" \in DOMAIN function.items
                              THEN Returned(skill(function.items.description))
                              ELSE Returned(skill("A tool capability"))
                         [] function.type = "str" ->
                              Returned(skill("A tool capability"))
                         [] OTHER -> Raised
               ELSE Returned(skill("A tool capability"))
     ELSE Returned(skill("A tool capability"))

\* the skill of the except branch of create_agent_card
general_skill ==
  [id |-> <<"general">>,
   name |-> <<"General", "Assistant">>,
   description |-> "General purpose AI assistant",
   examples |-> PyNone,
   inputModes |-> <<"text/plain">>,
   outputModes |-> <<"text/plain">>,
   tags |-> << <<"general">>, <<"assistant">> >>]

\* agent.tool_definitions.items(): raises when the agent has no such
\* attribute or the attribute has no items()
tool_definitions_items(a) ==
  IF "tool_definitions" \notin DOMAIN a THEN Raised
  ELSE IF a.tool_definitions.type # "dict" THEN Raised
  ELSE Returned(a.tool_definitions.items)

\* the tool definitions an entry of the dict may hold
DictWithDescription == PyDict([description |-> "reads a file"])
DictWithFunction == PyDict([function |-> PyDict([description |-> "searches"])])
DictPlain == PyDict([type |-> "function"])
DictBadFunction == PyDict([function |-> PyNone])
ToolDefs ==
  { DictWithDescription, DictWithFunction, DictPlain, DictBadFunction,
    PyDict(<< >>), PyNone, PyStr("search the web"),
    PyFunction(DictWithDescription), PyFunction(PyNone), PyRaisingFunction }

\* the values of the dict: (tool_def, handler, provider) triples, and a pair
ToolTuples ==
  {<<tool_def, PyNone, PyNone>> : tool_def \in ToolDefs}
    \cup {<<DictWithDescription, PyNone>>}

ToolNames == << <<"read", "file">>, <<"search">>, <<"run", "code">>, <<"ask">> >>

\* the dicts of at most MaxTools entries, with keys that differ
ToolDicts ==
  UNION { { d \in [1..n -> [key : {ToolNames[k] : k \in 1..MaxTools},
                            value : ToolTuples]] :
              \A i, j \in 1..n : i # j => d[i].key # d[j].key }
          : n \in 0..MaxTools }

\* the agents create_agent_card is called with
Agents ==
  LET named(a) == {a, [f \in DOMAIN a \cup {"name", "description"} |->
                        CASE f = "name" -> "crew"
                          [] f = "description" -> "helps with code"
                          [] OTHER -> a[f]]}
  IN UNION { named([tool_definitions |-> PyDict(d)]) : d \in ToolDicts }
       \cup named([tool_definitions |-> PyNone])
       \cup named(<< >>)

\* create_agent_card touches neither the configuration tab nor the input
OnlyCard ==
  UNCHANGED <<storeVars, listVars, formVars, widgetVars, lastOp, nSteps, histVars,
              inputVars>>

\* lines 54-56: skills = [], the try, agent.tool_definitions.items()
card_begin ==
  /\ card_pc = "start"
  /\ LET items == tool_definitions_items(local_agent)
     IN IF items.raised
        THEN /\ skills' = <<general_skill>>
             /\ card_pc' = "build"
        ELSE /\ skills' = << >>
             /\ card_pc' = "loop"
  /\ tool_i' = 1
  /\ UNCHANGED <<local_agent, card>>
  /\ OnlyCard

\* mutant: the loop body with a callable that raises ending the loop
card_loop_body_raise_escapes ==
  /\ card_pc = "loop"
  /\ tool_i <= Len(local_agent.tool_definitions.items)
  /\ LET entry == local_agent.tool_definitions.items[tool_i]
         tool_name == entry.key
     IN IF Len(entry.value) # 3
        THEN /\ skills' = <<general_skill>>
             /\ card_pc' = "build"
        ELSE LET tool_def == entry.value[1]
                 failed == callable(tool_def) /\ "returns" \notin DOMAIN tool_def
                 definition ==
                   IF callable(tool_def)
                   THEN (IF "returns" \in DOMAIN tool_def
                         THEN tool_def.returns ELSE PyNone)
                   ELSE tool_def
                 skill == map_tool_to_skill(tool_name, definition)
             IN IF failed \/ (truthy(definition) /\ skill.raised)
                THEN /\ skills' = <<general_skill>>
                     /\ card_pc' = "build"
                ELSE /\ skills' = IF truthy(definition)
                                  THEN Append(skills, skill.value)
                                  ELSE skills
                     /\ card_pc' = "loop"
  /\ tool_i' = tool_i + 1
  /\ UNCHANGED <<local_agent, card>>
  /\ OnlyCard

\* lines 56-81: one entry of the loop; an exception that is not caught at
\* line 61 ends the loop in the except branch of line 70
card_loop_body ==
  /\ card_pc = "loop"
  /\ tool_i <= Len(local_agent.tool_definitions.items)
  /\ LET entry == local_agent.tool_definitions.items[tool_i]
         tool_name == entry.key
     IN IF Len(entry.value) # 3
        THEN /\ skills' = <<general_skill>>
             /\ card_pc' = "build"
        ELSE LET tool_def == entry.value[1]
                 definition ==
                   IF callable(tool_def)
                   THEN (IF "returns" \in DOMAIN tool_def
                         THEN tool_def.returns ELSE PyNone)
                   ELSE tool_def
                 skill == map_tool_to_skill(tool_name, definition)
             IN IF truthy(definition) /\ skill.raised
                THEN /\ skills' = <<general_skill>>
                     /\ card_pc' = "build"
                ELSE /\ skills' = IF truthy(definition)
                                  THEN Append(skills, skill.value)
                                  ELSE skills
                     /\ card_pc' = "loop"
  /\ tool_i' = tool_i + 1
  /\ UNCHANGED <<local_agent, card>>
  /\ OnlyCard

\* the loop has no entry left
card_loop_end ==
  /\ card_pc = "loop"
  /\ tool_i > Len(local_agent.tool_definitions.items)
  /\ card_pc' = "build"
  /\ UNCHANGED <<local_agent, tool_i, skills, card>>
  /\ OnlyCard

\* lines 83-109: the card
card_build ==
  /\ card_pc = "build"
  /\ card' = [name |-> IF "name" \in DOMAIN local_agent
                       THEN local_agent.name ELSE "AgentCrew Assistant",
              description |-> IF "description" \in DOMAIN local_agent
                              THEN local_agent.description
                              ELSE "An AI assistant powered by AgentCrew",
              version |-> "1.0.0",
              capabilities |-> [streaming |-> TRUE,
                                pushNotifications |-> FALSE,
                                stateTransitionHistory |-> TRUE],
              skills |-> skills,
              defaultInputModes |-> <<"text/plain", "application/octet-stream">>,
              defaultOutputModes |-> <<"text/plain", "application/octet-stream">>]
  /\ card_pc' = "done"
  /\ UNCHANGED <<local_agent, tool_i, skills>>
  /\ OnlyCard

\* create_agent_card(agent, base_url) is called
CardInit ==
  /\ EditorStart
  /\ store = << >>
  /\ InputStart
  /\ local_agent \in Agents
  /\ card_pc = "start"
  /\ tool_i = 0
  /\ skills = << >>
  /\ card = << >>

CardNext ==
  \/ card_begin
  \/ card_loop_body
  \/ card_loop_end
  \/ card_build

CardSpec == CardInit /\ [][CardNext]_vars

(***************************************************************************)
(* input_components.py: path completion in the message input.  A text is   *)
(* the sequence of its characters.                                         *)
(***************************************************************************)
Chars == {"a", "/", "~", ".", " ", "\n"}
WhiteSpace == {" ", "\n"}

NoMatch == [none |-> TRUE]

\* the character at position k of s is c
At(s, k, c) == k \in 1..Len(s) /\ s[k] = c

\* where "$" matches in s: at its end, and before a newline at its end
EndAnchors(s) ==
  {Len(s)} \cup (IF At(s, Len(s), "\n") THEN {Len(s) - 1} ELSE {})

\* (~|\.{1,2})?/ tried after i characters of s: the position of the "/", or 0
SlashAfter(s, i) ==
  CASE At(s, i + 1, "~") /\ At(s, i + 2, "/") -> i + 2
    [] At(s, i + 1, ".") /\ At(s, i + 2, ".") /\ At(s, i + 3, "/") -> i + 3
    [] At(s, i + 1, ".") /\ At(s, i + 2, "/") -> i + 2
    [] At(s, i + 1, "/") -> i + 1
    [] OTHER -> 0

\* [^\s]* after position p of s: the end of the longest run it takes
RunEnd(s, p) ==
  CHOOSE e \in p..Len(s) :
    /\ \A k \in (p + 1)..e : s[k] \notin WhiteSpace
    /\ e = Len(s) \/ s[e + 1] \in WhiteSpace

\* the end of the match of ((~|\.{1,2})?/[^\s]*|~)$ that starts after i
\* characters of s, or -1
MatchEnd(s, i) ==
  LET p == SlashAfter(s, i)
  IN IF p # 0 /\ RunEnd(s, p) \in EndAnchors(s) THEN RunEnd(s, p)
     ELSE IF At(s, i + 1, "~") /\ (i + 1) \in EndAnchors(s) THEN i + 1
     ELSE -1

\* re.search(r"((~|\.{1,2})?/[^\s]*|~)$", s): the leftmost match
re_search(s) ==
  LET starts == {i \in 0..(Len(s) - 1) : MatchEnd(s, i) # -1}
  IN IF starts = {} THEN NoMatch
     ELSE LET i == CHOOSE i \in starts : \A j \in starts : i <= j
          IN [start |-> i, group |-> SubSeq(s, i + 1, MatchEnd(s, i))]

\* os.path.basename(path): what follows the last "/"
basename(path) ==
  LET slashes == {k \in 1..Len(path) : path[k] = "/"}
  IN IF slashes = {} THEN path
     ELSE SubSeq(path, (CHOOSE k \in slashes : \A l \in slashes : l <= k) + 1,
                 Len(path))

\* prefix of check_for_path_completion and insert_completion
completion_prefix_of(path) ==
  IF \E k \in 1..Len(path) : path[k] = "/" THEN basename(path) ELSE path

\* check_for_path_completion, on textChanged; has_completions tells whether
\* get_path_completions(path) returns any
check_for_path_completion(text, position, has_completions) ==
  LET text_to_cursor == SubSeq(text, 1, position)
      path_match == re_search(text_to_cursor)
  IN IF path_match # NoMatch /\ has_completions
     THEN LET path == path_match.group
              prefix == completion_prefix_of(path)
          IN /\ completion_prefix' = prefix
             /\ path_prefix' = SubSeq(path, 1, Len(path) - Len(prefix))
             /\ popup_visible' = TRUE
     ELSE /\ popup_visible' = FALSE
          /\ UNCHANGED <<path_prefix, completion_prefix>>

\* the configuration tab and create_agent_card are not involved
OnlyInput ==
  UNCHANGED <<storeVars, listVars, formVars, widgetVars, lastOp, nSteps, histVars,
              cardVars>>

\* the user types the character c at the cursor
type_text(c) ==
  /\ Len(message_input) < MaxText
  /\ message_input' = SubSeq(message_input, 1, cursor_position) \o <<c>>
                        \o SubSeq(message_input, cursor_position + 1,
                                  Len(message_input))
  /\ cursor_position' = cursor_position + 1
  /\ \E has_completions \in BOOLEAN :
       check_for_path_completion(message_input', cursor_position', has_completions)
  /\ input_op' = "type"
  /\ OnlyInput

\* the user moves the text cursor; the text does not change
move_cursor(position) ==
  /\ position \in 0..Len(message_input)
  /\ position # cursor_position
  /\ cursor_position' = position
  /\ input_op' = "move"
  /\ UNCHANGED <<message_input, path_prefix, completion_prefix, popup_visible>>
  /\ OnlyInput

\* what the user may pick in the popup
Completions == { <<"a", "a">>, <<"a", "/">> }

\* file_completer.activated -> insert_completion(completion); insertText
\* emits textChanged
insert_completion(completion) ==
  /\ popup_visible
  /\ LET text == message_input
         position == cursor_position
         text_to_cursor == SubSeq(text, 1, position)
         path_match == re_search(text_to_cursor)
     IN IF path_match # NoMatch
        THEN LET path_start == path_match.start
                 path == path_match.group
                 prefix == completion_prefix_of(path)
                 prefix_start == path_start + Len(path) - Len(prefix)
             IN /\ message_input' = SubSeq(text, 1, prefix_start) \o completion
                                      \o SubSeq(text, position + 1, Len(text))
                /\ Len(message_input') <= MaxText
                /\ cursor_position' = prefix_start + Len(completion)
                /\ \E has_completions \in BOOLEAN :
                     check_for_path_completion(message_input', cursor_position',
                                               has_completions)
                /\ input_op' = "insert"
        ELSE /\ popup_visible' = FALSE
             /\ input_op' = "insert_none"
             /\ UNCHANGED <<message_input, cursor_position, path_prefix,
                            completion_prefix>>
  /\ OnlyInput

InputInit == EditorStart /\ store = << >> /\ CardIdle /\ InputStart

InputNext ==
  \/ \E c \in Chars : type_text(c)
  \/ \E position \in 0..MaxText : move_cursor(position)
  \/ \E completion \in Completions : insert_completion(completion)

InputSpec == InputInit /\ [][InputNext]_vars

(***************************************************************************)
(* Vocabulary of the properties.                                           *)
(***************************************************************************)
EditOps == {"editField", "setTransport", "addArgument", "removeArgument",
            "addEnvVar", "removeEnvVar", "toggleAgent"}

SaveOps == {"save", "save_invalid", "save_failed"}

\* the store holds exactly the records of items: one entry for each item,
\* under its id and with its values, and no other entry
Persisted(items, config) ==
  /\ Len(config) = Len(items)
  /\ \A i \in 1..Len(items) :
       \E k \in 1..Len(config) :
          config[k].key = items[i].id /\ config[k].value = items[i].config
  /\ \A k \in 1..Len(config) :
       \E i \in 1..Len(items) :
          config[k].key = items[i].id /\ config[k].value = items[i].config

\* the form fails the validation of save(): a required field is empty
\* after trimming
FormInvalid ==
  \/ strip(name_input) = EmptyText
  \/ streaming_server_checkbox /\ strip(url_input) = EmptyText
  \/ ~streaming_server_checkbox /\ strip(command_input) = EmptyText

\* the trimmed texts of rows that are not empty, in the order of rows
NonEmptyTrimmed(rows) ==
  SelectSeq([i \in 1..Len(rows) |-> strip(rows[i])], LAMBDA t : t # EmptyText)

(***************************************************************************)
(* C1: the ids of the records of the in-memory collection are pairwise     *)
(* distinct in every reachable state, so create() always gives the new     *)
(* record an id no other record of the collection has.                     *)
(***************************************************************************)
C1_IdsPairwiseDistinct ==
  \A i, j \in 1..Len(mcps_list) :
     i # j => mcps_list[i].id # mcps_list[j].id

(***************************************************************************)
(* C2: right after a successful save() or confirmed remove() the store     *)
(* holds exactly one entry for each record of the in-memory collection,    *)
(* with that record's values, and no other entry.                          *)
(***************************************************************************)
C2_StoreHoldsCollection ==
  lastOp \in {"save", "remove"} => Persisted(mcps_list, store)

(***************************************************************************)
(* C3: a save() on a form that fails validation is rejected and changes    *)
(* nothing: collection, store, form, selection and dirty flag stay as they *)
(* are, write_mcp_config is not called and no signal is emitted.           *)
(***************************************************************************)
C3_InvalidSaveChangesNothing ==
  [][(lastOp' \in SaveOps /\ FormInvalid)
       => /\ lastOp' = "save_invalid"
          /\ UNCHANGED <<mcps_list, store, mcps_config, formVars, current_row,
                         is_dirty, nWriteCalls, nWritten, nEmitted>>]_vars

C3_Witness ==
  /\ lastOp = "save_invalid"
  /\ streaming_server_checkbox
  /\ strip(name_input) # EmptyText
  /\ url_input # EmptyText
  /\ strip(url_input) = EmptyText

(***************************************************************************)
(* C4: a save() on a form that passes validation is not rejected; when its *)
(* write succeeds the selected record holds the form's values (trimmed,    *)
(* args without empty entries and in order, env without empty key), every  *)
(* other record is unchanged and the store contains the saved record.      *)
(***************************************************************************)
C4_ValidSaveReplacesAndPersists ==
  [][(lastOp' \in SaveOps /\ ~FormInvalid)
       => /\ lastOp' # "save_invalid"
          /\ lastOp' = "save" =>
               LET saved == mcps_list'[current_row]
               IN /\ Len(mcps_list') = Len(mcps_list)
                  /\ saved.id = mcps_list[current_row].id
                  /\ saved.config.name = strip(name_input)
                  /\ saved.config.streaming_server = streaming_server_checkbox
                  /\ saved.config.url = strip(url_input)
                  /\ saved.config.command = strip(command_input)
                  /\ saved.config.args = NonEmptyTrimmed(arg_inputs)
                  /\ \A k \in 1..Len(saved.config.env) :
                       saved.config.env[k].key # EmptyText
                  /\ \A i \in 1..Len(mcps_list) :
                       i # current_row => mcps_list'[i] = mcps_list[i]
                  /\ \E k \in 1..Len(store') :
                       /\ store'[k].key = saved.id
                       /\ store'[k].value = saved.config]_vars

(***************************************************************************)
(* C5: the dirty flag is false right after select(id) has loaded a record, *)
(* true right after a user edit of the form while a record is selected and *)
(* the editor is enabled, and false right after a successful save().       *)
(***************************************************************************)
C5_DirtyFlag ==
  /\ lastOp = "select" => ~is_dirty
  /\ (lastOp \in EditOps /\ current_row # 0 /\ editor_enabled) => is_dirty
  /\ lastOp = "save" => ~is_dirty

C5_Witness ==
  /\ lastOp = "save"
  /\ "name" \in DOMAIN store[1].value
  /\ store[1].value.name = <<"x">>
  /\ ~is_dirty

(***************************************************************************)
(* C6: a declined remove() leaves collection, selection and store as they  *)
(* are and emits nothing; a confirmed remove() whose write succeeds takes  *)
(* exactly the selected record out of the collection, the others keeping   *)
(* values and order, and the store then holds the new collection.          *)
(***************************************************************************)
C6_RemoveDeclinedOrExact ==
  [][/\ lastOp' = "remove_declined"
          => UNCHANGED <<mcps_list, current_row, store, nEmitted>>
     /\ lastOp' = "remove"
          => /\ Len(mcps_list') = Len(mcps_list) - 1
             /\ mcps_list' = RemoveAt(mcps_list, current_row)
             /\ Persisted(mcps_list', store')]_vars

(***************************************************************************)
(* C7: after two transport toggles in a row (and any even number of them)  *)
(* the form is back on the transport it started from and its command, args *)
(* rows, env rows and url are what they were before the first toggle.      *)
(***************************************************************************)
C7_TransportRoundTrip ==
  (transportRun > 0 /\ transportRun % 2 = 0)
    => transportBase = <<streaming_server_checkbox, url_input,
                         command_input, arg_inputs, env_inputs>>

C7_Witness ==
  /\ transportRun = 2
  /\ ~streaming_server_checkbox
  /\ command_input # EmptyText
  /\ arg_inputs # << >>
  /\ env_inputs # << >>

(***************************************************************************)
(* C8: the signals emitted are as many as the store writes that succeeded, *)
(* in every reachable state; a step that emits one is a save() or a        *)
(* confirmed remove() whose write succeeded.                               *)
(***************************************************************************)
C8_OneSignalPerWrite ==
  /\ [](nEmitted = nWritten)
  /\ [][nEmitted' # nEmitted
          => /\ nEmitted' = nEmitted + 1
             /\ lastOp' \in {"save", "remove"}]_vars

C8_Witness ==
  /\ nEmitted = 1
  /\ nWritten = 1
  /\ nWriteCalls = 1

(***************************************************************************)
(* C9: an edit of the form changes neither the in-memory collection nor    *)
(* the store; the values of a record change only in a save(), and the      *)
(* store changes only in a save() or a confirmed remove().                 *)
(***************************************************************************)
C9_EditingNeverCommits ==
  [][/\ lastOp' \in EditOps => UNCHANGED <<mcps_list, store>>
     /\ (Len(mcps_list') = Len(mcps_list) /\ mcps_list' # mcps_list)
          => lastOp' \in {"save", "save_failed"}
     /\ store' # store => lastOp' \in {"save", "remove"}]_vars

C9_Witness ==
  /\ lastOp \in EditOps
  /\ is_dirty
  /\ current_row # 0
  /\ "name" \in DOMAIN mcps_list[current_row].config
  /\ name_input # mcps_list[current_row].config.name

(***************************************************************************)
(* C10: create() appends one record with the placeholder defaults, selects *)
(* it, shows the defaults in the enabled editor and leaves dirty true; a   *)
(* save() right after it is not rejected, and when its write succeeds the  *)
(* store holds that record with the placeholder values.                    *)
(***************************************************************************)
Placeholder ==
  [name |-> <<"New Server">>,
   command |-> <<"docker">>,
   args |-> << <<"run">>, <<"-i">>, <<"--rm">> >>,
   env |-> << >>,
   enabledForAgents |-> << >>,
   streaming_server |-> FALSE,
   url |-> << >>]

C10_CreateThenSave ==
  [][/\ lastOp' = "create"
          => /\ Len(mcps_list') = Len(mcps_list) + 1
             /\ SubSeq(mcps_list', 1, Len(mcps_list)) = mcps_list
             /\ mcps_list'[Len(mcps_list')].config = Placeholder
             /\ current_row' = Len(mcps_list')
             /\ editor_enabled'
             /\ is_dirty'
             /\ name_input' = Placeholder.name
             /\ ~streaming_server_checkbox'
             /\ command_input' = Placeholder.command
             /\ arg_inputs' = Placeholder.args
             /\ env_inputs' = << >>
             /\ agent_checkboxes' = {}
     /\ (lastOp = "create" /\ lastOp' \in SaveOps)
          => /\ lastOp' # "save_invalid"
             /\ lastOp' = "save"
                  => \E k \in 1..Len(store') :
                        /\ store'[k].key = mcps_list[current_row].id
                        /\ store'[k].value = Placeholder]_vars

C10_Witness ==
  /\ lastOp = "save"
  /\ nSteps = 2
  /\ store = << [key |-> <<"new_server_", "1">>, value |-> Placeholder] >>

(***************************************************************************)
(* More vocabulary: the form a record shows when it is loaded.             *)
(***************************************************************************)
\* the rows of the env form for an env dict
EnvRows(env) ==
  [k \in 1..Len(env) |-> [key_input |-> env[k].key, value_input |-> env[k].value]]

\* the agents of the tab that a list of agent names contains
CheckedAgents(enabled_agents) ==
  {available_agents[k] : k \in 1..Len(available_agents)}
    \cap {enabled_agents[k] : k \in 1..Len(enabled_agents)}

\* the form shows exactly the values of config (absent keys as empty)
FormShows(config) ==
  /\ name_input = Get(config, "name", EmptyText)
  /\ streaming_server_checkbox = Get(config, "streaming_server", FALSE)
  /\ url_input = Get(config, "url", EmptyText)
  /\ command_input = Get(config, "command", EmptyText)
  /\ arg_inputs = Get(config, "args", << >>)
  /\ env_inputs = EnvRows(Get(config, "env", << >>))
  /\ agent_checkboxes = CheckedAgents(Get(config, "enabledForAgents", << >>))

(***************************************************************************)
(* C11: right after select(id) the form shows exactly the values stored    *)
(* for the selected record, with no row left over, also when the form held *)
(* unsaved edits; the selection neither writes the store nor changes a     *)
(* record, so the edits are gone.                                          *)
(***************************************************************************)
C11_SelectLoadsStoredValues ==
  [][lastOp' = "select"
       => /\ FormShows(mcps_list[current_row].config)'
          /\ ~is_dirty'
          /\ UNCHANGED <<mcps_list, store, nWriteCalls>>]_vars

C11_Witness ==
  /\ lastOp = "select"
  /\ editsDropped
  /\ Len(mcps_list) > 1
  /\ arg_inputs # << >>

\* env is what the env rows of the form save: an entry for each non-empty
\* trimmed key of the rows and for nothing else, keys pairwise distinct, the
\* value being the trimmed value of the last row with that key
EnvSavedFrom(env, rows) ==
  /\ \A k \in 1..Len(env) :
       /\ env[k].key # EmptyText
       /\ \A l \in 1..Len(env) : k # l => env[k].key # env[l].key
       /\ \E i \in 1..Len(rows) :
            /\ strip(rows[i].key_input) = env[k].key
            /\ strip(rows[i].value_input) = env[k].value
            /\ \A j \in (i + 1)..Len(rows) : strip(rows[j].key_input) # env[k].key
  /\ \A i \in 1..Len(rows) :
       strip(rows[i].key_input) # EmptyText
         => \E k \in 1..Len(env) : env[k].key = strip(rows[i].key_input)

\* config holds the values of the form as save() stores them
HoldsForm(config) ==
  /\ DOMAIN config = {"name", "command", "args", "env", "enabledForAgents",
                      "streaming_server", "url"}
  /\ config.name = strip(name_input)
  /\ config.streaming_server = streaming_server_checkbox
  /\ config.url = strip(url_input)
  /\ config.command = strip(command_input)
  /\ config.args = NonEmptyTrimmed(arg_inputs)
  /\ EnvSavedFrom(config.env, env_inputs)
  /\ {config.enabledForAgents[k] : k \in 1..Len(config.enabledForAgents)}
       = agent_checkboxes

(***************************************************************************)
(* C12: when the store write of save() fails, the selected record of the   *)
(* collection holds the form's values and dirty is false all the same,     *)
(* while the store keeps its contents, no signal is emitted and the write  *)
(* is tried once only.                                                     *)
(***************************************************************************)
C12_FailedWriteNoRollback ==
  [][lastOp' = "save_failed"
       => /\ HoldsForm(mcps_list'[current_row].config)
          /\ ~is_dirty'
          /\ ~save_btn'
          /\ UNCHANGED <<store, mcps_config, nWritten, nEmitted>>
          /\ nWriteCalls' = nWriteCalls + 1]_vars

C12_Witness ==
  /\ lastOp = "save_failed"
  /\ ~is_dirty
  /\ Len(store) > 0
  /\ \A k \in 1..Len(store) : store[k].value # mcps_list[current_row].config

\* the ids of the records of the collection
Ids(items) == {items[k].id : k \in 1..Len(items)}

(***************************************************************************)
(* C13: the id of a record never changes: an operation that keeps the      *)
(* number of records keeps the id at every position, save() stores the new *)
(* values in the store under the id the record had before, and the set of  *)
(* ids of the collection changes only by create(), which adds one id, and  *)
(* by a confirmed remove(), which deletes one.                             *)
(***************************************************************************)
C13_IdsImmutable ==
  [][/\ Len(mcps_list') = Len(mcps_list)
          => \A k \in 1..Len(mcps_list) : mcps_list'[k].id = mcps_list[k].id
     /\ lastOp' = "save"
          => \E k \in 1..Len(store') :
               /\ store'[k].key = mcps_list[current_row].id
               /\ HoldsForm(store'[k].value)
     /\ Ids(mcps_list') # Ids(mcps_list)
          => lastOp' \in {"create", "remove", "remove_failed"}
     /\ lastOp' = "create"
          => /\ Ids(mcps_list) \subseteq Ids(mcps_list')
             /\ Cardinality(Ids(mcps_list')) = Cardinality(Ids(mcps_list)) + 1
     /\ lastOp' \in {"remove", "remove_failed"}
          => /\ Ids(mcps_list') \subseteq Ids(mcps_list)
             /\ Cardinality(Ids(mcps_list')) = Cardinality(Ids(mcps_list)) - 1]_vars

(***************************************************************************)
(* C14: the record save() stores has an env with pairwise distinct,        *)
(* non-empty keys and args without an empty string: env rows with an empty *)
(* trimmed key are dropped, a key that several rows share gets the value   *)
(* of the last of them, and argument rows with an empty trimmed value are  *)
(* dropped, the others kept in order.                                      *)
(***************************************************************************)
C14_SavedEnvAndArgs ==
  [][lastOp' \in {"save", "save_failed"}
       => LET config == mcps_list'[current_row].config
          IN /\ EnvSavedFrom(config.env, env_inputs)
             /\ Cardinality({config.env[k].key : k \in 1..Len(config.env)})
                  = Len(config.env)
             /\ config.args = NonEmptyTrimmed(arg_inputs)
             /\ \A k \in 1..Len(config.args) : config.args[k] # EmptyText]_vars

C14_Witness ==
  /\ lastOp = "save"
  /\ \E i, j \in 1..Len(env_inputs) :
       /\ i < j
       /\ strip(env_inputs[i].key_input) = strip(env_inputs[j].key_input)
       /\ strip(env_inputs[i].key_input) # EmptyText
       /\ strip(env_inputs[i].value_input) # strip(env_inputs[j].value_input)
  /\ Len(mcps_list[current_row].config.args) < Len(arg_inputs)

(***************************************************************************)
(* C15: after load the collection holds exactly the entries of the store,  *)
(* in store order, nothing is selected, the editor pane, the remove action *)
(* and the save action are disabled and dirty is false, for an empty store *)
(* too; the store is read at load and never again.                         *)
(***************************************************************************)
C15_AfterLoad ==
  /\ nReads = 1
  /\ loaded = store \/ nWritten > 0
  /\ lastOp = "load"
       => /\ Len(mcps_list) = Len(store)
          /\ \A k \in 1..Len(store) :
               /\ mcps_list[k].id = store[k].key
               /\ mcps_list[k].config = store[k].value
          /\ current_row = 0
          /\ ~editor_enabled
          /\ ~remove_mcp_btn
          /\ ~save_btn
          /\ ~is_dirty

C15_Witness ==
  /\ lastOp = "load"
  /\ Len(store) = 1
  /\ "name" \notin DOMAIN store[1].value

\* the user operations on the rows and the transport of the form
BufferOps ==
  {"addArgument", "removeArgument", "addEnvVar", "removeEnvVar", "setTransport"}

(***************************************************************************)
(* C16: a user's addArgument, removeArgument, addEnvVar, removeEnvVar or   *)
(* transport toggle on a selected record with the editor enabled changes   *)
(* the rows or the transport and leaves dirty true; a select(id), which    *)
(* clears the old rows and adds the record's rows by the same operations,  *)
(* leaves dirty false.                                                     *)
(***************************************************************************)
C16_BufferOpsMarkDirty ==
  [][/\ (lastOp' \in BufferOps /\ current_row # 0 /\ editor_enabled)
          => /\ is_dirty'
             /\ <<arg_inputs, env_inputs, streaming_server_checkbox>>'
                  # <<arg_inputs, env_inputs, streaming_server_checkbox>>
     /\ (lastOp' = "select"
           /\ <<arg_inputs, env_inputs>>' # <<arg_inputs, env_inputs>>)
          => ~is_dirty']_vars

C16_Witness ==
  /\ lastOp = "removeEnvVar"
  /\ current_row # 0
  /\ editor_enabled
  /\ is_dirty
  /\ env_inputs = << >>
  /\ arg_inputs # << >>

(***************************************************************************)
(* C17: between two events the editor pane is enabled exactly when a       *)
(* record is current in the list, and so is the remove action, also after  *)
(* a confirmed remove() that leaves other records in the list.             *)
(***************************************************************************)
C17_EditorEnabledIffSelected ==
  /\ editor_enabled <=> current_row # 0
  /\ remove_mcp_btn <=> current_row # 0

(***************************************************************************)
(* C18: between two events the save action is enabled exactly when a       *)
(* record is selected and dirty is true, and dirty is true only while a    *)
(* record is selected and the editor is enabled; so no save() runs without *)
(* a selection or on a form without unsaved changes.                       *)
(***************************************************************************)
C18_SaveEnabledIffDirty ==
  /\ [](/\ save_btn <=> (current_row # 0 /\ is_dirty)
        /\ is_dirty => (current_row # 0 /\ editor_enabled))
  /\ [][lastOp' \in SaveOps => (current_row # 0 /\ is_dirty /\ save_btn)]_vars

C18_Witness ==
  /\ lastOp = "remove"
  /\ current_row = 0
  /\ ~save_btn
  /\ ~is_dirty
  /\ nSteps > 2

\* a stored record is valid: it has a name, and a command when its transport
\* is stdio or a url when it is streaming
ValidRecord(config) ==
  /\ Get(config, "name", EmptyText) # EmptyText
  /\ IF Get(config, "streaming_server", FALSE)
     THEN Get(config, "url", EmptyText) # EmptyText
     ELSE Get(config, "command", EmptyText) # EmptyText

AllValid(config) == \A k \in 1..Len(config) : ValidRecord(config[k].value)

(***************************************************************************)
(* C19: when every record loaded from the store is valid (a name, and a    *)
(* command for stdio or a url for streaming), every record of every        *)
(* collection written to the store is valid as well, and so is every       *)
(* record of the collection in memory.                                     *)
(***************************************************************************)
C19_ValidityPreserved ==
  AllValid(loaded)
    => /\ AllValid(store)
       /\ AllValid(mcps_config)
       /\ \A k \in 1..Len(mcps_list) : ValidRecord(mcps_list[k].config)

C19_Witness ==
  /\ AllValid(loaded)
  /\ loaded # << >>
  /\ lastOp = "save"
  /\ store # loaded
  /\ \E k \in 1..Len(store) :
       /\ store[k].value.streaming_server
       /\ ~Get(loaded[k].value, "streaming_server", FALSE)

\* an argument or env row is on screen: its group is shown and its widgets
\* are not hidden
ArgRowShown(k) == stdio_visible /\ arg_rows_visible[k]
EnvRowShown(k) == stdio_visible /\ env_rows_visible[k]

(***************************************************************************)
(* C20: between two events the url field is visible exactly when the       *)
(* editor is enabled and the transport of the form is streaming; the       *)
(* command field, the add buttons and the args and env groups with all     *)
(* their rows are visible exactly when the editor is enabled and the       *)
(* transport is stdio; with the editor disabled both groups are hidden.    *)
(***************************************************************************)
C20_FieldGroupVisibility ==
  /\ url_visible <=> (editor_enabled /\ streaming_server_checkbox)
  /\ stdio_visible <=> (editor_enabled /\ ~streaming_server_checkbox)
  /\ DOMAIN arg_rows_visible = DOMAIN arg_inputs
  /\ DOMAIN env_rows_visible = DOMAIN env_inputs
  /\ \A k \in DOMAIN arg_inputs :
       ArgRowShown(k) <=> (editor_enabled /\ ~streaming_server_checkbox)
  /\ \A k \in DOMAIN env_inputs :
       EnvRowShown(k) <=> (editor_enabled /\ ~streaming_server_checkbox)
  /\ ~editor_enabled => (~url_visible /\ ~stdio_visible)

C20_Witness ==
  /\ lastOp = "setTransport"
  /\ editor_enabled
  /\ streaming_server_checkbox
  /\ url_visible
  /\ arg_inputs # << >>
  /\ env_inputs # << >>
  /\ \A k \in DOMAIN arg_inputs : ~ArgRowShown(k)

(***************************************************************************)
(* C21: after a confirmed remove(), whatever the form and the dirty flag   *)
(* were before, dirty is false, the editor pane and the save action are    *)
(* disabled and the name, command, argument and env buffers are empty:     *)
(* clearing them during the removal does not set dirty again.              *)
(***************************************************************************)
C21_RemoveLeavesClean ==
  [][lastOp' \in {"remove", "remove_failed"}
       => /\ ~is_dirty'
          /\ ~editor_enabled'
          /\ ~save_btn'
          /\ name_input' = EmptyText
          /\ command_input' = EmptyText
          /\ arg_inputs' = << >>
          /\ env_inputs' = << >>
          /\ agent_checkboxes' = {}]_vars

C21_Witness ==
  /\ lastOp = "remove"
  /\ current_row # 0
  /\ Get(mcps_list[current_row].config, "name", EmptyText) # EmptyText
  /\ name_input = EmptyText
  /\ ~is_dirty

(***************************************************************************)
(* C22: save and re-selection are a round trip: a successful save() of a   *)
(* record stores the trimmed, empty-filtered values of the form, those of  *)
(* the hidden transport group included, and selecting the record again     *)
(* after another record was selected loads a form with exactly the name,   *)
(* transport, url, command, args, env and enabled agents that were stored. *)
(***************************************************************************)
C22_SaveSelectRoundTrip ==
  [][/\ lastOp' = "save"
          => /\ lastSaved' # NoItem
             /\ lastSaved'.row = current_row
             /\ HoldsForm(lastSaved'.config)
     /\ (lastOp' = "select" /\ lastSaved # NoItem /\ current_row' = lastSaved.row)
          => /\ current_row # current_row'
             /\ mcps_list'[current_row'].config = lastSaved.config
             /\ FormShows(lastSaved.config)']_vars

C22_Witness ==
  /\ lastOp = "select"
  /\ lastSaved # NoItem
  /\ current_row = lastSaved.row
  /\ streaming_server_checkbox
  /\ command_input # EmptyText
  /\ arg_inputs # << >>
  /\ env_inputs # << >>
  /\ url_input # EmptyText

\* the labels of the list, in row order
Labels == [k \in 1..Len(mcps_list) |-> mcps_list[k].text]

(***************************************************************************)
(* C23: the label the list shows for a record is the name stored in that   *)
(* record of the collection, or the record's id when a loaded record has   *)
(* no name; an unsaved edit of the form changes no label, and a successful *)
(* save() changes the label and the stored name together.                  *)
(***************************************************************************)
C23_LabelIsStoredName ==
  /\ [](\A k \in 1..Len(mcps_list) :
          mcps_list[k].text
            = Get(mcps_list[k].config, "name", mcps_list[k].id))
  /\ [][lastOp' \in EditOps \cup {"select", "save_invalid"}
          => Labels' = Labels]_vars
  /\ [][lastOp' = "save"
          => /\ mcps_list'[current_row].text = strip(name_input)
             /\ mcps_list'[current_row].config.name = strip(name_input)]_vars

C23_Witness ==
  /\ lastOp = "save"
  /\ mcps_list[current_row].text = <<"x">>
  /\ \E k \in 1..Len(loaded) : "name" \notin DOMAIN loaded[k].value

\* the agent has no usable tool definitions: the attribute is missing, is no
\* dict, or is an empty dict
NoToolsAvailable(a) ==
  \/ "tool_definitions" \notin DOMAIN a
  \/ a.tool_definitions.type # "dict"
  \/ a.tool_definitions.items = << >>

(***************************************************************************)
(* C24: when the agent has no usable tool definitions (missing, unreadable *)
(* or empty), the card create_agent_card returns has exactly one skill,    *)
(* with id "general"; the skills of a card are never empty.                *)
(***************************************************************************)
C24_GeneralSkillWithoutTools ==
  card_pc = "done"
    => /\ card.skills # << >>
       /\ NoToolsAvailable(local_agent)
            => /\ Len(card.skills) = 1
               /\ card.skills[1].id = <<"general">>

\* the definition of an entry (tool_def, handler, provider): the value
\* itself, or what calling it returns; none when the call raises
DefinitionOf(tool_def) ==
  IF tool_def.type = "function"
  THEN (IF "returns" \in DOMAIN tool_def THEN tool_def.returns ELSE PyNone)
  ELSE tool_def

NonEmptyDefinition(tool_def) ==
  LET definition == DefinitionOf(tool_def)
  IN /\ definition # PyNone
     /\ definition # PyDict(<< >>)
     /\ definition # PyStr("")

\* reading the entry raises an exception that nothing in the loop catches:
\* the value is no triple, or looking for the description of a non-empty
\* definition fails
EntryFails(entry) ==
  \/ Len(entry.value) # 3
  \/ /\ NonEmptyDefinition(entry.value[1])
     /\ DefinitionOf(entry.value[1]).type = "dict"
     /\ DOMAIN DefinitionOf(entry.value[1]).items = {"function"}
     /\ DefinitionOf(entry.value[1]).items.function.type = "NoneType"

\* reading the tool definitions fails as a whole
ReadingFails(a) ==
  \/ "tool_definitions" \notin DOMAIN a
  \/ a.tool_definitions.type # "dict"
  \/ \E k \in 1..Len(a.tool_definitions.items) :
       EntryFails(a.tool_definitions.items[k])

\* the names of the tools with a non-empty definition, in tool order
MappedTools(a) ==
  LET kept == SelectSeq(a.tool_definitions.items,
                        LAMBDA entry : NonEmptyDefinition(entry.value[1]))
  IN [k \in 1..Len(kept) |-> kept[k].key]

SkillIds(c) == [k \in 1..Len(c.skills) |-> c.skills[k].id]

IsPath(p) ==
  \/ p = <<"~">>
  \/ \E h \in { << >>, <<"~">>, <<".">>, <<".", ".">> } :
       /\ Len(p) > Len(h)
       /\ SubSeq(p, 1, Len(h)) = h
       /\ p[Len(h) + 1] = "/"
       /\ \A k \in (Len(h) + 2)..Len(p) : p[k] \notin WhiteSpace

\* the starts of the paths that end at the cursor
PathStarts(text, position) ==
  {i \in 0..(position - 1) : IsPath(SubSeq(text, i + 1, position))}

PathEndsAtCursor(text, position) == PathStarts(text, position) # {}

\* the path that ends at the cursor: the one that starts leftmost
PathStart(text, position) ==
  CHOOSE i \in PathStarts(text, position) :
    \A j \in PathStarts(text, position) : i <= j

PathAtCursor(text, position) ==
  SubSeq(text, PathStart(text, position) + 1, position)

\* where the last segment of that path starts: after the last "/" of the
\* path, or at the path's start when it has none
SegmentStart(text, position) ==
  LET slashes == {k \in (PathStart(text, position) + 1)..position : text[k] = "/"}
  IN IF slashes = {} THEN PathStart(text, position)
     ELSE CHOOSE k \in slashes : \A l \in slashes : l <= k

(***************************************************************************)
(* C26: when check_for_path_completion finds a path that ends at the       *)
(* cursor and completions exist, path_prefix followed by the completion    *)
(* prefix is that path; insert_completion then replaces exactly the text   *)
(* from the start of the path's last segment up to the cursor by the       *)
(* completion, the text before the segment and after the cursor staying as *)
(* they are, and does nothing when no path ends at the cursor.             *)
(***************************************************************************)
C26_CompletionSplitsAndReplaces ==
  [][/\ (input_op' \in {"type", "insert"} /\ popup_visible'
           /\ PathEndsAtCursor(message_input', cursor_position'))
          => path_prefix' \o completion_prefix'
               = PathAtCursor(message_input', cursor_position')
     /\ input_op' \in {"insert", "insert_none"}
          => IF PathEndsAtCursor(message_input, cursor_position)
             THEN \E completion \in Completions :
                    LET from == SegmentStart(message_input, cursor_position)
                    IN /\ message_input'
                            = SubSeq(message_input, 1, from) \o completion
                                \o SubSeq(message_input, cursor_position + 1,
                                          Len(message_input))
                       /\ cursor_position' = from + Len(completion)
             ELSE UNCHANGED <<message_input, cursor_position>>]_vars

====
